---- MODULE Spec2Model ----
(***************************************************************************)
(* Wallet verification flow of the sendit Discord bot                      *)
(* (cogs/wallet_verification.py, utils/database.py).                       *)
(*                                                                         *)
(* The bot runs on one asyncio event loop: a handler runs without          *)
(* preemption up to its next awaited I/O call (a storage call, a Discord   *)
(* API call, the read of a request body).  Each action below is one such   *)
(* run: it performs the storage call the handler was suspended on and the  *)
(* synchronous code that follows it, up to the next suspension.            *)
(*                                                                         *)
(* The clock `now` counts ticks of 30 seconds (TicksPerMinute).            *)
(***************************************************************************)
EXTENDS Integers, Sequences, FiniteSets, TLC

(* ------------------------------ bounds --------------------------------- *)
\* verification tokens minted over a run
MaxTokens == 2
\* how often one side effect may fire for one token before the model stops counting
MaxFired == 2
\* half token lifetimes over which the clock is followed
MaxSteps == 3
\* submissions made where the rate limit is not the subject
MaxPosts == 2
\* last clock tick of the rate-limit specifications
MaxRateNow == 2
\* requests the second IP makes in the rate-limit specification
MaxOtherIp == 1

\* largest max_retries a caller passes to get_db_connection
MaxRetries == 3
\* pools asyncpg.create_pool hands out in one run
MaxPools == 3

(* --------------------------- program constants ------------------------- *)
\* get_db_connection: retry_delay: float = 2.0, in sixteenths of a second
DelayUnit == 16
RetryDelay == 2 * DelayUnit
TicksPerMinute == 2
\* check_rate_limit: timedelta(minutes=1)
RateWindow == 1 * TicksPerMinute
\* check_rate_limit: len(...) >= 10
RateLimit == 10
\* generate_jwt_token / store_verification_token: timedelta(minutes=10)
TokenTTL == 10 * TicksPerMinute
\* verify_wallet_signature: len(signature) != 64
SigLen == 64

HalfTTL == TokenTTL \div 2

(* ------------------------------ universes ------------------------------ *)
Accounts == {"A1", "A2"}
Wallets == {"W1", "W2"}
BadWallet == "not-base58"
NoWallet == "none"
NoAccount == "nobody"
IPs == {"ip1", "ip2"}
\* Coroutines that call get_db_connection.
Callers == {"k1", "k2"}
\* _pool = None
NoPool == 0
Slots == {"r1", "r2"}
Cmds == {"c1", "c2"}

TokenIds == 1..MaxTokens
\* data.get('token') of a body without the field
NoToken == 0
\* a token string no row was ever stored under
UnknownToken == MaxTokens + 1

\* The stages of handle_verification_submit, in source order.
Pipeline == <<"rate", "json", "fields", "wallet", "lookup", "signature", "complete">>

VARIABLES
    now,          \* datetime.utcnow(), in ticks
    tokens,       \* verification token table: token -> row
    jwts,         \* the payload each minted token string carries
    nextTok,      \* next token string generate_jwt_token will mint
    users,        \* user table: discord id -> wallet_address, wallet_verified
    hasRole,      \* members holding the verified role
    rate_limits,  \* WalletVerification.rate_limits: ip -> list of timestamps
    req,          \* POST /api/verify requests in flight
    cmd,          \* start-verification invocations in flight
    fired,        \* per token: role grants, DMs, analytics events emitted
    admLog,       \* history: every timestamp check_rate_limit admitted, per ip
    ev,           \* history: what the last step did and answered
    server,       \* the cog's web server: self.app, self.server, the listening socket
    conn,         \* utils/database: the pool _pool and a get_db_connection call in progress
    bot,          \* main.py: the position of main(), the SenditBot and its web server
    health        \* health_check.py: a run of the health check script

vars == <<now, tokens, jwts, nextTok, users, hasRole, rate_limits, req, cmd, fired, admLog, ev,
          server, conn, bot, health>>

\* The state of the verification flow, apart from the history of the last step.
Flow == <<now, tokens, jwts, nextTok, users, hasRole, rate_limits, req, cmd, fired, admLog>>

(* ------------------------------- rows ---------------------------------- *)
NoRow == [discord_id |-> NoAccount, status |-> "absent", created_at |-> 0,
          expires_at |-> 0, wallet_address |-> NoWallet]
NoJwt == [discord_id |-> NoAccount, exp |-> 0]
NoSig == [isList |-> TRUE, isBytes |-> TRUE, len |-> 0, signer |-> NoWallet, msg |-> NoToken]
IdleReq == [pc |-> "idle", ip |-> "none", token |-> NoToken, wallet |-> NoWallet,
            sig |-> NoSig, discord_id |-> NoAccount, did |-> <<>>]
IdleCmd == [pc |-> "idle", account |-> NoAccount, token |-> NoToken, expires_at |-> 0]

\* The record `ev` keeps of the last step: which handler ran, what it read and answered.
NoEvent ==
    [op |-> "init", slot |-> "none", status |-> 0, error |-> "none", did |-> <<>>,
     token |-> NoToken, wallet |-> NoWallet, discord_id |-> NoAccount, genuine |-> FALSE,
     looked |-> FALSE, found |-> FALSE, ip |-> "none", admitted |-> FALSE,
     before |-> 0, outcome |-> "none", account |-> NoAccount, hadPending |-> FALSE,
     pending |-> NoToken, wasVerified |-> FALSE, success |-> FALSE, cause |-> "none",
     sig |-> NoSig, cors |-> FALSE, wellFormed |-> FALSE, cogLoaded |-> FALSE]

\* WalletVerification.__init__: self.app = None, self.server = None; nothing listens.
\* url: self.verification_base_url; failure: what became of a failure to start.
NoServer == [pc |-> "constructed", app |-> FALSE, server |-> FALSE, listening |-> FALSE,
             url |-> <<>>, failure |-> "none"]

\* main.py before main() runs; SenditBot.__init__: web_app, runner and site are None.
\* registered: the site is registered in its runner; closes: calls of SenditBot.close.
\* started: the site has listened; closes: calls of SenditBot.close; end: how the try
\* block of main() ended; exit: how main() itself ended.
NoBot == [pc |-> "not_started", web_app |-> FALSE, runner |-> FALSE, site |-> FALSE,
          listening |-> FALSE, started |-> FALSE, cog |-> FALSE, closes |-> 0,
          end |-> "none", exit |-> "none"]

\* health_check.py before it runs.
NoHealth == [pc |-> "not_started", answer |-> [kind |-> "none", status |-> 0],
             is_healthy |-> FALSE, exit |-> 0]

\* A get_db_connection call that is not in progress.
NoCall == [pc |-> "idle", max_retries |-> 0, attempt |-> 0, retry_delay |-> 0, slept |-> 0,
           tried |-> <<>>, mine |-> NoPool, result |-> "none", got |-> NoPool]

\* utils/database: _pool = None, no pool created yet, no get_db_connection call in
\* progress.
NoConn == [pool |-> NoPool, made |-> 0, tested |-> {}, failed |-> {}, closed |-> {},
           call |-> [k \in Callers |-> NoCall]]

Init ==
    /\ now = 0
    /\ tokens = [t \in TokenIds |-> NoRow]
    /\ jwts = [t \in TokenIds |-> NoJwt]
    /\ nextTok = 1
    /\ users = [a \in Accounts |-> [wallet_address |-> NoWallet, wallet_verified |-> FALSE]]
    /\ hasRole = {}
    /\ rate_limits = [ip \in IPs |-> <<>>]
    /\ req = [s \in Slots |-> IdleReq]
    /\ cmd = [c \in Cmds |-> IdleCmd]
    /\ fired = [t \in TokenIds |-> [role |-> 0, dm |-> 0, analytics |-> 0]]
    /\ admLog = [ip \in IPs |-> <<>>]
    /\ ev = NoEvent
    /\ server = NoServer
    /\ conn = NoConn
    /\ bot = NoBot
    /\ health = NoHealth

(* --------------------------- pure functions ---------------------------- *)
InWindow(list, t) == SelectSeq(list, LAMBDA ts : ts > t - RateWindow)

\* check_rate_limit with `>` for `>=`: an eleventh request passes.
check_rate_limit_off_by_one(list, t) ==
    LET cleaned == InWindow(list, t)
    IN  IF Len(cleaned) > RateLimit
        THEN [list |-> cleaned, ok |-> FALSE]
        ELSE [list |-> Append(cleaned, t), ok |-> TRUE]

\* check_rate_limit trimming one tick too early: a timestamp still in the window is dropped.
check_rate_limit_lossy(list, t) ==
    LET cleaned == SelectSeq(list, LAMBDA ts : ts > t - RateWindow + 1)
    IN  IF Len(cleaned) >= RateLimit
        THEN [list |-> cleaned, ok |-> FALSE]
        ELSE [list |-> Append(cleaned, t), ok |-> TRUE]

\* check_rate_limit appending before the test: a rejected request is recorded too.
check_rate_limit_records_rejected(list, t) ==
    LET cleaned == InWindow(list, t)
    IN  IF Len(cleaned) >= RateLimit
        THEN [list |-> Append(cleaned, t), ok |-> FALSE]
        ELSE [list |-> Append(cleaned, t), ok |-> TRUE]

\* check_rate_limit(ip): the trimmed list, the current request appended when admitted.
check_rate_limit(list, t) ==
    LET cleaned == InWindow(list, t)
    IN  IF Len(cleaned) >= RateLimit
        THEN [list |-> cleaned, ok |-> FALSE]
        ELSE [list |-> Append(cleaned, t), ok |-> TRUE]

\* shared.utils.is_valid_solana_address: base58 / length check of the address.
is_valid_solana_address(w) == w \in Wallets

\* The message the page asks the wallet to sign for a token.
ExpectedMessage(token) == token

\* What a real ed25519 check would answer: signed by the wallet's key over the message.
Genuine(sig, wallet, token) ==
    /\ sig.isList /\ sig.isBytes
    /\ sig.len = SigLen
    /\ sig.signer = wallet
    /\ sig.msg = ExpectedMessage(token)

\* verify_wallet_signature(wallet_address, signature, token)
verify_wallet_signature(wallet, sig, token) ==
    IF ~sig.isList \/ sig.len # SigLen
    THEN [valid |-> FALSE, error |-> "signature_invalid"]
    ELSE IF ~is_valid_solana_address(wallet)
    THEN [valid |-> FALSE, error |-> "invalid_wallet"]
    ELSE [valid |-> TRUE, error |-> "none"]

\* utils/database.get_verification_token: SELECT * FROM verifications WHERE token = ...
get_verification_token(toks, token) ==
    IF token \in TokenIds /\ toks[token].status # "absent" THEN toks[token] ELSE NoRow

\* db.get_user_by_wallet: the accounts a lookup by wallet address may return.
get_user_by_wallet(us, wallet) ==
    LET holders == {a \in Accounts : us[a].wallet_address = wallet}
    IN  IF holders = {} THEN {NoAccount} ELSE holders

\* update_verification_status flipping a row that is already completed back to pending.
update_verification_status_reopens(toks, token, status) ==
    [toks EXCEPT ![token].status = IF @ = "completed" THEN "pending" ELSE status]

\* utils/database.update_verification_status(token, status)
update_verification_status(toks, token, status) ==
    [toks EXCEPT ![token].status = status]

\* db.complete_verification_token(token, wallet_address, ip_address)
complete_verification_token(toks, token, wallet) ==
    [update_verification_status(toks, token, "completed") EXCEPT ![token].wallet_address = wallet]

\* update_user_solana_verified with no WHERE clause: every row is updated.
update_user_solana_verified_no_where(us, a, wallet) ==
    [b \in Accounts |-> [wallet_address |-> wallet, wallet_verified |-> TRUE]]

\* utils/database.update_user_solana_verified(user_id, wallet_address)
update_user_solana_verified(us, a, wallet) ==
    [us EXCEPT ![a] = [wallet_address |-> wallet, wallet_verified |-> TRUE]]

\* db.link_wallet(discord_id, wallet_address)
link_wallet(us, a, wallet) == update_user_solana_verified(us, a, wallet)

\* db.get_pending_verification(discord_id): Pending, unexpired tokens of the account.
get_pending_verification(toks, a, t) ==
    {k \in TokenIds : /\ toks[k].discord_id = a
                      /\ toks[k].status = "pending"
                      /\ t < toks[k].expires_at}

\* verify_jwt_token accepting a payload at the very instant of its exp.
verify_jwt_token_lax(jwt, t) == t <= jwt.exp

\* verify_jwt_token: jwt.decode rejects a payload whose exp has passed.
verify_jwt_token(jwt, t) == t < jwt.exp

\* The signatures a client may send with a wallet address and a token, by kind: a list
\* of 64 bytes signed by the wallet, by someone else, or over another message; a list of
\* 63 bytes; a string; a list of 64 elements that are not bytes; none.
SigOf(kind, wallet, token) ==
    LET sig == [isList |-> TRUE, isBytes |-> TRUE, len |-> SigLen, signer |-> wallet, msg |-> token]
    IN  CASE kind = "genuine" -> sig
          [] kind = "forged"  -> [sig EXCEPT !.signer = "attacker"]
          [] kind = "replay"  -> [sig EXCEPT !.msg = UnknownToken]
          [] kind = "short"   -> [sig EXCEPT !.len = SigLen - 1]
          [] kind = "text"    -> [sig EXCEPT !.isList = FALSE, !.isBytes = FALSE]
          [] kind = "nonbyte" -> [sig EXCEPT !.isBytes = FALSE]
          [] OTHER            -> NoSig

SigKinds == {"genuine", "absent", "forged", "replay", "short", "text", "nonbyte"}

Minted == 1..(nextTok - 1)

\* The request bodies a client may post: wallet addresses from W, signatures of kinds K.
Bodies(W, K) ==
    { [json |-> TRUE, token |-> x[1], walletAddress |-> x[2], signature |-> SigOf(x[3], x[2], x[1])] :
        x \in ({NoToken, UnknownToken} \cup Minted) \X W \X K }
    \cup { [json |-> FALSE, token |-> NoToken, walletAddress |-> NoWallet, signature |-> NoSig] }

\* The required-fields check leaving the signature out.
Truthy_no_signature(body) ==
    /\ body.token # NoToken
    /\ body.walletAddress # NoWallet

\* Python truthiness of the three body fields, as all([...]) reads them.
Truthy(body) ==
    /\ body.token # NoToken
    /\ body.walletAddress # NoWallet
    /\ body.signature.len > 0

Count(list, t) == Len(InWindow(list, t))

(* ------------------------------ history -------------------------------- *)
\* start_api_server.cors_middleware: the response the handler returned gets the three
\* Access-Control-Allow headers (a step that returns no response has none).
cors_middleware(response) == [response EXCEPT !.cors = (response.status # 0)]

\* Request r in slot s is answered with a status and an error.
Step(s, status, error, r) ==
    cors_middleware([NoEvent EXCEPT !.op = "post", !.slot = s, !.status = status,
                                    !.error = error, !.did = r.did, !.ip = r.ip])

\* ... and what a step that read the token table, or linked a wallet, worked on.
About(e, r) ==
    [e EXCEPT !.token = r.token, !.wallet = r.wallet, !.sig = r.sig,
              !.discord_id = r.discord_id]

\* A step that leaves request s unanswered and reads no token.
Moved(s) == [NoEvent EXCEPT !.op = "post", !.slot = s]

(* ------------------------ POST /api/verify ----------------------------- *)
\* handle_verification_submit without the early return of the rate-limit gate.
SubmitStart_no_return(s, ip) ==
    /\ req[s].pc = "idle"
    /\ LET r == check_rate_limit(rate_limits[ip], now)
           me == [IdleReq EXCEPT !.ip = ip, !.did = <<"rate">>]
       IN  /\ rate_limits' = [rate_limits EXCEPT ![ip] = r.list]
           /\ admLog' = [admLog EXCEPT ![ip] = IF r.ok THEN Append(@, now) ELSE @]
           /\ req' = [req EXCEPT ![s] = [me EXCEPT !.pc = "json"]]
           /\ ev' = [Step(s, IF r.ok THEN 0 ELSE 429, IF r.ok THEN "none" ELSE "rate_limit", me)
                        EXCEPT !.op = "submit", !.admitted = r.ok,
                               !.before = Count(admLog[ip], now)]
    /\ UNCHANGED <<bot, health, server, conn, now, tokens, jwts, nextTok, users, hasRole, cmd, fired>>

\* handle_verification_submit over one timestamp list shared by every address.
SubmitStart_shared_list(s, ip) ==
    /\ req[s].pc = "idle"
    /\ LET r == check_rate_limit(rate_limits[ip], now)
           me == [IdleReq EXCEPT !.ip = ip, !.did = <<"rate">>]
       IN  /\ rate_limits' = [i \in IPs |-> r.list]
           /\ admLog' = [admLog EXCEPT ![ip] = IF r.ok THEN Append(@, now) ELSE @]
           /\ req' = [req EXCEPT ![s] = IF r.ok THEN [me EXCEPT !.pc = "json"] ELSE IdleReq]
           /\ ev' = [Step(s, IF r.ok THEN 0 ELSE 429, IF r.ok THEN "none" ELSE "rate_limit", me)
                        EXCEPT !.op = "submit", !.admitted = r.ok,
                               !.before = Count(admLog[ip], now)]
    /\ UNCHANGED <<bot, health, server, conn, now, tokens, jwts, nextTok, users, hasRole, cmd, fired>>

\* handle_verification_submit, up to `await request.json()`: the rate-limit gate.
SubmitStart(s, ip) ==
    /\ req[s].pc = "idle"
    /\ LET r == check_rate_limit(rate_limits[ip], now)
           me == [IdleReq EXCEPT !.ip = ip, !.did = <<"rate">>]
       IN  /\ rate_limits' = [rate_limits EXCEPT ![ip] = r.list]
           /\ admLog' = [admLog EXCEPT ![ip] = IF r.ok THEN Append(@, now) ELSE @]
           /\ req' = [req EXCEPT ![s] = IF r.ok THEN [me EXCEPT !.pc = "json"] ELSE IdleReq]
           /\ ev' = [Step(s, IF r.ok THEN 0 ELSE 429, IF r.ok THEN "none" ELSE "rate_limit", me)
                        EXCEPT !.op = "submit", !.admitted = r.ok,
                               !.before = Count(admLog[ip], now)]
    /\ UNCHANGED <<bot, health, server, conn, now, tokens, jwts, nextTok, users, hasRole, cmd, fired>>

\* The body is read, but the wallet-address format is not checked before the lookup.
ParseBody_no_format_check(s, body) ==
    /\ req[s].pc = "json"
    /\ LET r0 == [req[s] EXCEPT !.did = Append(@, "json")]
           r1 == [r0 EXCEPT !.did = Append(@, "fields"), !.token = body.token,
                            !.wallet = body.walletAddress, !.sig = body.signature]
           r2 == [r1 EXCEPT !.did = Append(@, "wallet")]
       IN  IF ~body.json
           THEN /\ req' = [req EXCEPT ![s] = IdleReq]
                /\ ev' = [Step(s, 500, "internal_server_error", r0) EXCEPT !.cause = "body"]
           ELSE IF ~Truthy(body)
           THEN req' = [req EXCEPT ![s] = IdleReq] /\ ev' = About(Step(s, 400, "missing_data", r1), r1)
           ELSE req' = [req EXCEPT ![s] = [r2 EXCEPT !.pc = "lookup"]] /\ ev' = Moved(s)
    /\ UNCHANGED <<bot, health, server, conn, now, tokens, jwts, nextTok, users, hasRole, rate_limits, cmd, fired, admLog>>

\* ... the body is read: required fields, wallet-address format.
ParseBody(s, body) ==
    /\ req[s].pc = "json"
    /\ LET r0 == [req[s] EXCEPT !.did = Append(@, "json")]
           r1 == [r0 EXCEPT !.did = Append(@, "fields"), !.token = body.token,
                            !.wallet = body.walletAddress, !.sig = body.signature]
           r2 == [r1 EXCEPT !.did = Append(@, "wallet")]
       IN  IF ~body.json
           THEN /\ req' = [req EXCEPT ![s] = IdleReq]
                /\ ev' = [Step(s, 500, "internal_server_error", r0) EXCEPT !.cause = "body"]
           ELSE IF ~Truthy(body)
           THEN req' = [req EXCEPT ![s] = IdleReq] /\ ev' = About(Step(s, 400, "missing_data", r1), r1)
           ELSE IF ~is_valid_solana_address(body.walletAddress)
           THEN req' = [req EXCEPT ![s] = IdleReq] /\ ev' = About(Step(s, 400, "invalid_wallet", r2), r2)
           ELSE req' = [req EXCEPT ![s] = [r2 EXCEPT !.pc = "lookup"]] /\ ev' = Moved(s)
    /\ UNCHANGED <<bot, health, server, conn, now, tokens, jwts, nextTok, users, hasRole, rate_limits, cmd, fired, admLog>>

\* The lookup with no handler around it: an exception of the storage call ends the
\* request with no response.
Lookup_propagates(s, dbOk) ==
    /\ req[s].pc = "lookup"
    /\ LET r0 == [req[s] EXCEPT !.did = Append(@, "lookup")]
           row == get_verification_token(tokens, r0.token)
           r1 == [r0 EXCEPT !.did = Append(@, "signature")]
           res == verify_wallet_signature(r0.wallet, r0.sig, r0.token)
           r2 == [r1 EXCEPT !.did = Append(@, "complete"), !.discord_id = row.discord_id,
                            !.pc = "get_user_by_wallet"]
           seen == row.status # "absent"
       IN  IF ~dbOk
           THEN req' = [req EXCEPT ![s] = IdleReq] /\ ev' = Moved(s)
           ELSE IF ~seen
           THEN req' = [req EXCEPT ![s] = IdleReq]
                /\ ev' = [About(Step(s, 400, "invalid_token", r0), r0) EXCEPT !.looked = TRUE]
           ELSE IF ~res.valid
           THEN req' = [req EXCEPT ![s] = IdleReq]
                /\ ev' = [About(Step(s, 400, res.error, r1), r1)
                             EXCEPT !.looked = TRUE, !.found = TRUE]
           ELSE req' = [req EXCEPT ![s] = r2]
                /\ ev' = [About(Step(s, 0, "none", r2), r2)
                             EXCEPT !.looked = TRUE, !.found = TRUE,
                                    !.genuine = Genuine(r0.sig, r0.wallet, r0.token)]
    /\ UNCHANGED <<bot, health, server, conn, now, tokens, jwts, nextTok, users, hasRole, rate_limits, cmd, fired, admLog>>

\* ... get_verification_token answers; signature validation; complete_verification is entered.
Lookup(s, dbOk) ==
    /\ req[s].pc = "lookup"
    /\ LET r0 == [req[s] EXCEPT !.did = Append(@, "lookup")]
           row == get_verification_token(tokens, r0.token)
           r1 == [r0 EXCEPT !.did = Append(@, "signature")]
           res == verify_wallet_signature(r0.wallet, r0.sig, r0.token)
           r2 == [r1 EXCEPT !.did = Append(@, "complete"), !.discord_id = row.discord_id,
                            !.pc = "get_user_by_wallet"]
           seen == row.status # "absent"
       IN  IF ~dbOk
           THEN /\ req' = [req EXCEPT ![s] = IdleReq]
                /\ ev' = [Step(s, 500, "internal_server_error", r0) EXCEPT !.cause = "storage"]
           ELSE IF ~seen
           THEN req' = [req EXCEPT ![s] = IdleReq]
                /\ ev' = [About(Step(s, 400, "invalid_token", r0), r0) EXCEPT !.looked = TRUE]
           ELSE IF ~res.valid
           THEN req' = [req EXCEPT ![s] = IdleReq]
                /\ ev' = [About(Step(s, 400, res.error, r1), r1)
                             EXCEPT !.looked = TRUE, !.found = TRUE]
           ELSE req' = [req EXCEPT ![s] = r2]
                /\ ev' = [About(Step(s, 0, "none", r2), r2)
                             EXCEPT !.looked = TRUE, !.found = TRUE,
                                    !.genuine = Genuine(r0.sig, r0.wallet, r0.token)]
    /\ UNCHANGED <<bot, health, server, conn, now, tokens, jwts, nextTok, users, hasRole, rate_limits, cmd, fired, admLog>>

(* ----------------------- complete_verification ------------------------- *)
\* A False from complete_verification is answered 500 by the handler; cause records
\* why complete_verification gave up: the wallet conflict or a failed storage call.
Failed(s, cause) ==
    /\ req' = [req EXCEPT ![s] = IdleReq]
    /\ ev' = [About(Step(s, 500, "internal_server_error", req[s]), req[s]) EXCEPT !.cause = cause]

\* The wallet-already-linked check made after the token row was marked completed.
GetUserByWallet_marks_token_first(s, dbOk) ==
    /\ req[s].pc = "get_user_by_wallet"
    /\ tokens' = complete_verification_token(tokens, req[s].token, req[s].wallet)
    /\ \E existing \in get_user_by_wallet(users, req[s].wallet) :
          IF ~dbOk
          THEN Failed(s, "storage")
          ELSE IF existing # NoAccount /\ existing # req[s].discord_id
          THEN Failed(s, "conflict")
          ELSE /\ req' = [req EXCEPT ![s].pc = "complete_token"]
               /\ ev' = Moved(s)
    /\ UNCHANGED <<bot, health, server, conn, now, jwts, nextTok, users, hasRole, rate_limits, cmd, fired, admLog>>

\* db.get_user_by_wallet answers: the wallet-already-linked check.
GetUserByWallet(s, dbOk) ==
    /\ req[s].pc = "get_user_by_wallet"
    /\ \E existing \in get_user_by_wallet(users, req[s].wallet) :
          IF ~dbOk
          THEN Failed(s, "storage")
          ELSE IF existing # NoAccount /\ existing # req[s].discord_id
          THEN Failed(s, "conflict")
          ELSE /\ req' = [req EXCEPT ![s].pc = "complete_token"]
               /\ ev' = Moved(s)
    /\ UNCHANGED <<bot, health, server, conn, now, tokens, jwts, nextTok, users, hasRole, rate_limits, cmd, fired, admLog>>

\* db.complete_verification_token runs; outcome "ok", "false" (it reports failure, which
\* complete_verification does not read) or "raise".
CompleteToken(s, outcome) ==
    /\ req[s].pc = "complete_token"
    /\ IF outcome = "raise"
       THEN Failed(s, "storage") /\ UNCHANGED tokens
       ELSE /\ tokens' = IF outcome = "ok"
                         THEN complete_verification_token(tokens, req[s].token, req[s].wallet)
                         ELSE tokens
            /\ req' = [req EXCEPT ![s].pc = "link_wallet"]
            /\ ev' = Moved(s)
    /\ UNCHANGED <<bot, health, server, conn, now, jwts, nextTok, users, hasRole, rate_limits, cmd, fired, admLog>>

\* db.link_wallet runs; outcome "ok", "false" (it reports failure) or "raise".
LinkWallet(s, outcome) ==
    /\ req[s].pc = "link_wallet"
    /\ IF outcome # "ok"
       THEN Failed(s, "storage") /\ UNCHANGED users
       ELSE /\ users' = link_wallet(users, req[s].discord_id, req[s].wallet)
            /\ req' = [req EXCEPT ![s].pc = "assign_role"]
            /\ ev' = Moved(s)
    /\ UNCHANGED <<bot, health, server, conn, now, tokens, jwts, nextTok, hasRole, rate_limits, cmd, fired, admLog>>

\* assign_verified_role: add_roles unless the member already holds the role; errors are logged.
AssignRole(s, ok) ==
    /\ req[s].pc = "assign_role"
    /\ LET t == req[s].token
           grant == ok /\ req[s].discord_id \notin hasRole
       IN  /\ grant => fired[t].role < MaxFired
           /\ fired' = IF grant THEN [fired EXCEPT ![t].role = @ + 1] ELSE fired
           /\ hasRole' = IF grant THEN hasRole \cup {req[s].discord_id} ELSE hasRole
    /\ req' = [req EXCEPT ![s].pc = "send_dm"]
    /\ ev' = Moved(s)
    /\ UNCHANGED <<bot, health, server, conn, now, tokens, jwts, nextTok, users, rate_limits, cmd, admLog>>

\* send_verification_success_dm: errors are logged.
SendDm(s, ok) ==
    /\ req[s].pc = "send_dm"
    /\ LET t == req[s].token
       IN  /\ ok => fired[t].dm < MaxFired
           /\ fired' = IF ok THEN [fired EXCEPT ![t].dm = @ + 1] ELSE fired
    /\ req' = [req EXCEPT ![s].pc = "log_analytics"]
    /\ ev' = Moved(s)
    /\ UNCHANGED <<bot, health, server, conn, now, tokens, jwts, nextTok, users, hasRole, rate_limits, cmd, admLog>>

\* db.log_analytics_event('wallet_verification_completed'), then the response.
LogAnalytics(s, dbOk) ==
    /\ req[s].pc = "log_analytics"
    /\ LET t == req[s].token
       IN  IF ~dbOk
           THEN Failed(s, "storage") /\ UNCHANGED fired
           ELSE /\ fired[t].analytics < MaxFired
                /\ fired' = [fired EXCEPT ![t].analytics = @ + 1]
                /\ req' = [req EXCEPT ![s] = IdleReq]
                /\ ev' = [About(Step(s, 200, "none", req[s]), req[s])
                             EXCEPT !.success = TRUE,
                                    !.genuine = Genuine(req[s].sig, req[s].wallet, req[s].token)]
    /\ UNCHANGED <<bot, health, server, conn, now, tokens, jwts, nextTok, users, hasRole, rate_limits, cmd, admLog>>

(* --------------------------- GET /verify/{token} ----------------------- *)
\* get_error_page("Invalid or expired verification token")
ErrorPage == "invalid_or_expired_token"

\* handle_verification_page: the page for a token the lookup returns, else the error
\* page. An exception of the lookup leaves the handler and the middleware; the server
\* answers it with its own 500 response.
HandlePage(token, dbOk) ==
    /\ LET row == get_verification_token(tokens, token)
       IN  ev' = IF dbOk
                 THEN cors_middleware(
                          [NoEvent EXCEPT !.op = "page", !.token = token, !.status = 200,
                                          !.looked = TRUE, !.found = (row.status # "absent"),
                                          !.error = IF row.status = "absent"
                                                    THEN ErrorPage ELSE "none"])
                 ELSE [NoEvent EXCEPT !.op = "page", !.token = token, !.status = 500,
                                      !.error = "internal_server_error", !.cause = "storage"]
    /\ UNCHANGED <<bot, health, server, conn, now, tokens, jwts, nextTok, users, hasRole, rate_limits, req, cmd, fired, admLog>>

\* handle_options: the CORS preflight response, which sets the headers itself.
HandleOptions ==
    /\ ev' = cors_middleware([NoEvent EXCEPT !.op = "options", !.status = 200, !.cors = TRUE])
    /\ UNCHANGED <<Flow, bot, health, server, conn>>

\* handle_health: {'status': 'healthy', 'timestamp': ...}
HandleHealth ==
    /\ ev' = cors_middleware([NoEvent EXCEPT !.op = "health", !.status = 200])
    /\ UNCHANGED <<Flow, bot, health, server, conn>>

(* ------------------ solana-verify command / verify button -------------- *)
Outcome(c, a, outcome, token) ==
    [NoEvent EXCEPT !.op = "cmd", !.slot = c, !.account = a, !.outcome = outcome,
                    !.token = token]

\* The command or the button is invoked.
CmdStart(c, a, via) ==
    /\ cmd[c].pc = "idle"
    /\ via \in {"command", "button"}
    /\ cmd' = [cmd EXCEPT ![c] = [IdleCmd EXCEPT !.pc = "get_user", !.account = a]]
    /\ ev' = Outcome(c, a, "none", NoToken)
    /\ UNCHANGED <<bot, health, server, conn, now, tokens, jwts, nextTok, users, hasRole, rate_limits, req, fired, admLog>>

\* verify_wallet without the already-verified return: a verified account goes on to
\* the pending check.
CmdGetUser_no_verified_check(c, dbOk) ==
    /\ cmd[c].pc = "get_user"
    /\ LET a == cmd[c].account
       IN  IF ~dbOk
           THEN cmd' = [cmd EXCEPT ![c] = IdleCmd] /\ ev' = Outcome(c, a, "generic_error", NoToken)
           ELSE cmd' = [cmd EXCEPT ![c].pc = "get_pending"] /\ ev' = Outcome(c, a, "none", NoToken)
    /\ UNCHANGED <<bot, health, server, conn, now, tokens, jwts, nextTok, users, hasRole, rate_limits, req, fired, admLog>>

\* db.get_user answers: an already verified account is told so.
CmdGetUser(c, dbOk) ==
    /\ cmd[c].pc = "get_user"
    /\ LET a == cmd[c].account
       IN  IF ~dbOk
           THEN cmd' = [cmd EXCEPT ![c] = IdleCmd] /\ ev' = Outcome(c, a, "generic_error", NoToken)
           ELSE IF users[a].wallet_verified
           THEN /\ cmd' = [cmd EXCEPT ![c] = IdleCmd]
                /\ ev' = [Outcome(c, a, "already_verified", NoToken)
                             EXCEPT !.wasVerified = TRUE,
                                    !.hadPending = get_pending_verification(tokens, a, now) # {}]
           ELSE cmd' = [cmd EXCEPT ![c].pc = "get_pending"] /\ ev' = Outcome(c, a, "none", NoToken)
    /\ UNCHANGED <<bot, health, server, conn, now, tokens, jwts, nextTok, users, hasRole, rate_limits, req, fired, admLog>>

\* db.get_pending_verification answers: the pending link again, or a fresh token.
\* generate_jwt_token and store_verification_token read the clock one after the other;
\* it may move on by d between the two reads.
CmdGetPending(c, dbOk, d) ==
    /\ cmd[c].pc = "get_pending"
    /\ LET a == cmd[c].account
           P == get_pending_verification(tokens, a, now)
       IN  \E p \in (IF P = {} THEN {NoToken} ELSE P) :
             IF ~dbOk
             THEN /\ cmd' = [cmd EXCEPT ![c] = IdleCmd]
                  /\ ev' = Outcome(c, a, "generic_error", NoToken)
                  /\ UNCHANGED <<now, jwts, nextTok>>
             ELSE IF p # NoToken /\ verify_jwt_token(jwts[p], now)
             THEN /\ cmd' = [cmd EXCEPT ![c] = IdleCmd]
                  /\ ev' = [Outcome(c, a, "reused", p) EXCEPT !.hadPending = TRUE, !.pending = p]
                  /\ UNCHANGED <<now, jwts, nextTok>>
             ELSE /\ nextTok <= MaxTokens
                  /\ jwts' = [jwts EXCEPT ![nextTok] = [discord_id |-> a, exp |-> now + TokenTTL]]
                  /\ nextTok' = nextTok + 1
                  /\ now' = now + d
                  /\ cmd' = [cmd EXCEPT ![c].pc = "store", ![c].token = nextTok,
                                        ![c].expires_at = now + d + TokenTTL]
                  /\ ev' = [Outcome(c, a, "minted", nextTok)
                               EXCEPT !.hadPending = (P # {}), !.pending = p]
    /\ UNCHANGED <<bot, health, server, conn, tokens, users, hasRole, rate_limits, req, fired, admLog>>

\* verify_wallet without the `if not stored` return: the link goes out whatever the
\* store answered.
CmdStore_no_stored_check(c, stored) ==
    /\ cmd[c].pc = "store"
    /\ LET a == cmd[c].account
           t == cmd[c].token
       IN  /\ tokens' = IF ~stored THEN tokens
                         ELSE [tokens EXCEPT ![t] =
                                 [discord_id |-> a, status |-> "pending", created_at |-> now,
                                  expires_at |-> cmd[c].expires_at, wallet_address |-> NoWallet]]
           /\ ev' = Outcome(c, a, "link_sent", t)
    /\ cmd' = [cmd EXCEPT ![c] = IdleCmd]
    /\ UNCHANGED <<bot, health, server, conn, now, jwts, nextTok, users, hasRole, rate_limits, req, fired, admLog>>

\* db.create_verification_token runs; the link is delivered when the token was stored.
CmdStore(c, stored) ==
    /\ cmd[c].pc = "store"
    /\ LET a == cmd[c].account
           t == cmd[c].token
       IN  IF ~stored
           THEN tokens' = tokens /\ ev' = Outcome(c, a, "store_failed", t)
           ELSE /\ tokens' = [tokens EXCEPT ![t] =
                                 [discord_id |-> a, status |-> "pending", created_at |-> now,
                                  expires_at |-> cmd[c].expires_at, wallet_address |-> NoWallet]]
                /\ ev' = Outcome(c, a, "link_sent", t)
    /\ cmd' = [cmd EXCEPT ![c] = IdleCmd]
    /\ UNCHANGED <<bot, health, server, conn, now, jwts, nextTok, users, hasRole, rate_limits, req, fired, admLog>>

(* ------------------------- cog_load / cog_unload ----------------------- *)
\* str.startswith over a URL held as its pieces.
startswith(url, prefix) ==
    Len(prefix) <= Len(url) /\ SubSeq(url, 1, Len(prefix)) = prefix

\* The values VERIFICATION_URL may have: local ones, the default, others.
Urls ==
    { <<"http://", "verify.sendit-bot.com">>, <<"https://", "verify.sendit-bot.com">>,
      <<"http://", "localhost", ":8080">>, <<"http://", "127.0.0.1", ":8080">>,
      <<"https://", "localhost", ":8080">> }

\* start_api_server: the test that lets the local server start.
is_local(url) ==
    \/ startswith(url, <<"http://", "localhost">>)
    \/ startswith(url, <<"http://", "127.0.0.1">>)

\* start_api_server without its try/except: the exception of site.start() goes up
\* through cog_load.
SiteStart_no_except(ok) ==
    /\ server.pc = "site_start"
    /\ server' = IF ok
                 THEN [server EXCEPT !.pc = "loaded", !.listening = TRUE]
                 ELSE [server EXCEPT !.pc = "loaded", !.failure = "raised"]
    /\ ev' = [NoEvent EXCEPT !.op = "cog"]
    /\ UNCHANGED <<Flow, bot, health, conn>>

\* cog_load -> start_api_server: nothing is started unless the verification URL is a
\* local one; else the application, the middleware and the routes are set up.
CogLoad(url) ==
    /\ server.pc = "constructed"
    /\ server' = IF is_local(url)
                 THEN [server EXCEPT !.pc = "runner_setup", !.app = TRUE, !.url = url]
                 ELSE [server EXCEPT !.pc = "loaded", !.url = url]
    /\ ev' = [NoEvent EXCEPT !.op = "cog"]
    /\ UNCHANGED <<Flow, bot, health, conn>>

\* start_api_server: the port is read, await runner.setup(); an exception is logged.
RunnerSetup(ok) ==
    /\ server.pc = "runner_setup"
    /\ server' = IF ok
                 THEN [server EXCEPT !.pc = "site_start"]
                 ELSE [server EXCEPT !.pc = "loaded", !.failure = "logged"]
    /\ ev' = [NoEvent EXCEPT !.op = "cog"]
    /\ UNCHANGED <<Flow, bot, health, conn>>

\* start_api_server: await site.start(), an exception is logged; the site and the
\* runner are local variables of start_api_server, nothing is assigned to self.server.
SiteStart(ok) ==
    /\ server.pc = "site_start"
    /\ server' = IF ok
                 THEN [server EXCEPT !.pc = "loaded", !.listening = TRUE]
                 ELSE [server EXCEPT !.pc = "loaded", !.failure = "logged"]
    /\ ev' = [NoEvent EXCEPT !.op = "cog"]
    /\ UNCHANGED <<Flow, bot, health, conn>>

\* cog_unload: `if self.server:` close it and wait until it is closed.
CogUnload ==
    /\ server.pc = "loaded"
    /\ server' = IF server.server
                 THEN [server EXCEPT !.pc = "unloaded", !.listening = FALSE, !.server = FALSE]
                 ELSE [server EXCEPT !.pc = "unloaded"]
    /\ ev' = [NoEvent EXCEPT !.op = "cog"]
    /\ UNCHANGED <<Flow, bot, health, conn>>

(* ------------------------ utils/database: the pool ---------------------- *)
\* The call of caller k after one more pass of the connection loop has failed: after the
\* failure of the pass with attempt = max_retries a ConnectionError is raised.
PassFailed(k, outcome) ==
    LET c == [conn.call[k] EXCEPT !.tried = Append(@, outcome), !.mine = NoPool]
    IN  IF c.attempt = c.max_retries
        THEN [c EXCEPT !.pc = "idle", !.result = "ConnectionError"]
        ELSE [c EXCEPT !.pc = "sleep"]

\* get_db_connection(max_retries) is called by k: the pool is returned when there is an
\* open one, else the connection loop is entered with attempt = 0 and create_pool is
\* awaited.
GetDbConnection(k, m) ==
    /\ conn.call[k].pc = "idle"
    /\ conn' = [conn EXCEPT !.call[k] =
                   IF conn.pool # NoPool /\ conn.pool \notin conn.closed
                   THEN [NoCall EXCEPT !.max_retries = m, !.result = "pool", !.got = conn.pool]
                   ELSE [NoCall EXCEPT !.pc = "create_pool", !.max_retries = m,
                                       !.retry_delay = RetryDelay]]
    /\ ev' = [NoEvent EXCEPT !.op = "db"]
    /\ UNCHANGED <<Flow, bot, health, server>>

\* `_pool = await asyncpg.create_pool(...)` ends for k: a new pool is assigned to the
\* global and its test query is started, or the call raised a PostgresError or another
\* exception and the global is left as it is.
CreatePool(k, outcome) ==
    /\ conn.call[k].pc = "create_pool"
    /\ IF outcome = "ok"
       THEN /\ conn.made < MaxPools
            /\ conn' = [conn EXCEPT !.made = @ + 1, !.pool = conn.made + 1,
                                    !.call[k].pc = "test", !.call[k].mine = conn.made + 1]
       ELSE conn' = [conn EXCEPT !.call[k] = PassFailed(k, outcome)]
    /\ ev' = [NoEvent EXCEPT !.op = "db"]
    /\ UNCHANGED <<Flow, bot, health, server>>

\* `async with _pool.acquire() as conn: await conn.execute('SELECT 1')` ends for k on the
\* pool it created: `return _pool` returns the global as it is now, or the test raised
\* and the pass has failed, the global still holding a pool.
TestPool(k, outcome) ==
    /\ conn.call[k].pc = "test"
    /\ IF outcome = "ok"
       THEN conn' = [conn EXCEPT !.tested = @ \cup {conn.call[k].mine},
                                 !.call[k] = [@ EXCEPT !.pc = "idle", !.tried = Append(@, "ok"),
                                                       !.result = "pool", !.got = conn.pool]]
       ELSE conn' = [conn EXCEPT !.failed = @ \cup {conn.call[k].mine},
                                 !.call[k] = PassFailed(k, outcome)]
    /\ ev' = [NoEvent EXCEPT !.op = "db"]
    /\ UNCHANGED <<Flow, bot, health, server>>

\* `if attempt < max_retries`: asyncio.sleep(retry_delay), retry_delay *= 1.5, next pass.
Backoff(k) ==
    /\ conn.call[k].pc = "sleep"
    /\ conn' = [conn EXCEPT !.call[k] =
                   [@ EXCEPT !.pc = "create_pool", !.attempt = @ + 1,
                             !.slept = @ + conn.call[k].retry_delay,
                             !.retry_delay = (@ * 3) \div 2]]
    /\ ev' = [NoEvent EXCEPT !.op = "db"]
    /\ UNCHANGED <<Flow, bot, health, server>>

\* close_db_connection, while no get_db_connection call is in progress: the pool is
\* closed and forgotten.
CloseDbConnection ==
    /\ \A k \in Callers : conn.call[k].pc = "idle"
    /\ conn.pool # NoPool
    /\ conn' = [conn EXCEPT !.pool = NoPool, !.closed = @ \cup {conn.pool}]
    /\ ev' = [NoEvent EXCEPT !.op = "db"]
    /\ UNCHANGED <<Flow, bot, health, server>>

(* -------------------------------- main.py ------------------------------ *)
\* SenditBot.close: the site is stopped when there is one, the runner cleaned up when
\* there is one, then commands.Bot.close unloads the cogs.
\* When site.stop() raises (raises true) the rest of close does not run.
close(b, raises) ==
    IF raises
    THEN [b EXCEPT !.closes = @ + 1]
    ELSE [b EXCEPT !.listening = IF b.site \/ b.runner THEN FALSE ELSE @,
                   !.cog = FALSE, !.closes = @ + 1]

\* main() with the `finally` clause left out: bot.close() only after a normal end.
Finally_only_after_normal_end(stopOk) ==
    /\ bot.pc = "finally"
    /\ LET stopRaises == bot.site /\ ~bot.listening /\ ~stopOk
           closed == IF bot.end = "normal" THEN close(bot, stopRaises) ELSE bot
           raised == bot.end = "cancelled" \/ (bot.end = "normal" /\ stopRaises)
       IN  bot' = [closed EXCEPT !.pc = "returned",
                                 !.exit = IF raised THEN "raise" ELSE "return"]
    /\ ev' = [NoEvent EXCEPT !.op = "main"]
    /\ UNCHANGED <<Flow, health, server, conn>>

\* main() is run: with no DISCORD_TOKEN it logs and returns; else the SenditBot is made
\* and start_web_server goes as far as `await self.runner.setup()`.
Main(token) ==
    /\ bot.pc = "not_started"
    /\ bot' = IF ~token
              THEN [bot EXCEPT !.pc = "returned", !.exit = "no_token"]
              ELSE [bot EXCEPT !.pc = "runner_setup", !.web_app = TRUE, !.runner = TRUE]
    /\ ev' = [NoEvent EXCEPT !.op = "main"]
    /\ UNCHANGED <<Flow, health, server, conn>>

\* start_web_server: runner.setup() ends; the TCPSite is made and its start awaited, or
\* the exception ends the try block.
StartRunner(ok) ==
    /\ bot.pc = "runner_setup"
    /\ bot' = IF ok
              THEN [bot EXCEPT !.pc = "site_start", !.site = TRUE]
              ELSE [bot EXCEPT !.pc = "finally", !.end = "exception"]
    /\ ev' = [NoEvent EXCEPT !.op = "main"]
    /\ UNCHANGED <<Flow, health, server, conn>>

\* start_web_server: site.start() ends; the server listens and bot.start(token) is
\* awaited, or the exception (the port is taken) ends the try block.
StartSite(ok) ==
    /\ bot.pc = "site_start"
    /\ bot' = IF ok
              THEN [bot EXCEPT !.pc = "bot_start", !.listening = TRUE, !.started = TRUE]
              ELSE [bot EXCEPT !.pc = "finally", !.end = "exception"]
    /\ ev' = [NoEvent EXCEPT !.op = "main"]
    /\ UNCHANGED <<Flow, health, server, conn>>

\* bot.start(token) -> setup_hook: setup_web_server makes a new application, load_cogs
\* loads the wallet_verification cog or logs why it did not.
SetupHook(loaded) ==
    /\ bot.pc = "bot_start"
    /\ bot' = [bot EXCEPT !.pc = "running", !.cog = loaded]
    /\ ev' = [NoEvent EXCEPT !.op = "main"]
    /\ UNCHANGED <<Flow, health, server, conn>>

\* The library closes the bot itself while it runs (a fatal gateway error, a shutdown
\* command): SenditBot.close is what it calls.
ClosedInside ==
    /\ bot.pc = "running" /\ bot.closes = 0
    /\ bot' = close(bot, FALSE)
    /\ ev' = [NoEvent EXCEPT !.op = "main"]
    /\ UNCHANGED <<Flow, health, server, conn>>

\* bot.start(token) ends: it returns, or KeyboardInterrupt, an Exception or a
\* cancellation is raised in main().
BotEnd(cause) ==
    /\ bot.pc = "bot_start" \/ bot.pc = "running"
    /\ bot' = [bot EXCEPT !.pc = "finally", !.end = cause]
    /\ ev' = [NoEvent EXCEPT !.op = "main"]
    /\ UNCHANGED <<Flow, health, server, conn>>

\* `finally: await bot.close()`: main() returns after it, KeyboardInterrupt and Exception
\* having been caught and logged; a cancellation goes on, and so does what site.stop()
\* raises on a site that does not listen when it raises (stopOk false).
Finally(stopOk) ==
    /\ bot.pc = "finally"
    /\ LET stopRaises == bot.site /\ ~bot.listening /\ ~stopOk
           raised == bot.end = "cancelled" \/ stopRaises
       IN  bot' = [close(bot, stopRaises) EXCEPT !.pc = "returned",
                                                 !.exit = IF raised THEN "raise" ELSE "return"]
    /\ ev' = [NoEvent EXCEPT !.op = "main"]
    /\ UNCHANGED <<Flow, health, server, conn>>

\* The parameters of WalletVerification.verify_wallet_signature after self.
SignatureParams == <<"wallet_address", "signature", "token">>

\* The arguments handle_wallet_verification passes: cog.verify_wallet_signature(data).
ConfirmArgs(data) == <<data>>

\* POST /api/confirm, SenditBot.handle_wallet_verification: the body is read, the cog is
\* looked up and its validator called; a call whose arguments do not fit the parameters
\* raises TypeError, and every exception is answered 400.
HandleConfirm(body) ==
    /\ bot.listening
    /\ LET args == ConfirmArgs(body)
           e == [NoEvent EXCEPT !.op = "confirm", !.wellFormed = body.json /\ Truthy(body),
                                !.cogLoaded = bot.cog, !.wallet = body.walletAddress,
                                !.token = body.token, !.sig = body.signature]
       IN  ev' = IF ~body.json
                 THEN [e EXCEPT !.status = 400, !.error = "Invalid request"]
                 ELSE IF ~bot.cog
                 THEN [e EXCEPT !.status = 500, !.error = "Verification service unavailable"]
                 ELSE IF Len(args) # Len(SignatureParams)
                 THEN [e EXCEPT !.status = 400, !.error = "Invalid request"]
                 ELSE LET r == verify_wallet_signature(args[1], args[2], args[3])
                      IN  [e EXCEPT !.status = 200, !.error = r.error, !.success = r.valid]
    /\ UNCHANGED <<Flow, bot, health, server, conn>>

(* ---------------------------- health_check.py -------------------------- *)
\* check_health with `response.status < 500` for `== 200`.
check_health_any_answer(answer) ==
    IF answer.kind = "response" THEN answer.status < 500 ELSE FALSE

\* check_health: True when GET /api/health answered 200; a timeout, a refused
\* connection and every other Exception give False.
check_health(answer) ==
    IF answer.kind = "response" THEN answer.status = 200 ELSE FALSE

\* What a GET of /api/health on the port may end with: the answer of
\* SenditBot.handle_health_check while the bot's server listens, the answer of another
\* server or a refused connection while it does not, a timeout at any time.
HealthAnswers ==
    {[kind |-> "timeout", status |-> 0]}
    \cup (IF bot.listening
          THEN {[kind |-> "response", status |-> 200]}
          ELSE {[kind |-> "refused", status |-> 0]}
               \cup {[kind |-> "response", status |-> st] : st \in {404, 503}})

\* health_check.main: sys.exit(0 if is_healthy else 1); the SystemExit it raises is no
\* Exception and passes the except clause. When asyncio.run itself raises an Exception
\* (runOk false) there is no answer and the exit status is 1.
HealthCheck(answer, runOk) ==
    /\ answer \in HealthAnswers
    /\ LET is_healthy == check_health(answer)
       IN  health' = IF runOk
                     THEN [pc |-> "exited", answer |-> answer, is_healthy |-> is_healthy,
                           exit |-> IF is_healthy THEN 0 ELSE 1]
                     ELSE [pc |-> "exited", answer |-> [kind |-> "error", status |-> 0],
                           is_healthy |-> FALSE, exit |-> 1]
    /\ ev' = [NoEvent EXCEPT !.op = "health_check"]
    /\ UNCHANGED <<Flow, bot, server, conn>>

(* -------------------------------- time --------------------------------- *)
\* The instants at which a comparison with the clock changes its answer for a token:
\* the exp of its payload, the expires_at and the created_at + 10 minutes of its row.
Deadlines ==
    {jwts[t].exp : t \in Minted}
    \cup {tokens[t].expires_at : t \in {k \in TokenIds : tokens[k].status # "absent"}}
    \cup {tokens[t].created_at + TokenTTL : t \in {k \in TokenIds : tokens[k].status # "absent"}}

\* The clock reaches instant t.
Elapse(t) ==
    /\ now < t
    /\ now' = t
    /\ ev' = [NoEvent EXCEPT !.op = "tick"]
    /\ UNCHANGED <<bot, health, server, conn, tokens, jwts, nextTok, users, hasRole, rate_limits, req, cmd, fired, admLog>>

\* The clock advances by d ticks, up to cap.
Tick(d, cap) ==
    /\ now < cap
    /\ now' = now + d
    /\ ev' = [NoEvent EXCEPT !.op = "tick"]
    /\ UNCHANGED <<bot, health, server, conn, tokens, jwts, nextTok, users, hasRole, rate_limits, req, cmd, fired, admLog>>

(* ---------------------------- specifications --------------------------- *)
\* The outcomes of a storage call whose result is read: F holds FALSE when it may fail.
Outcomes(F) == {"ok"} \cup {o \in {"raise", "false"} : FALSE \in F}

\* POST /api/verify: at most P submissions, in slots S, of bodies with wallets W and
\* signature kinds K; F are the outcomes of a storage call and G of a Discord call
\* (TRUE: it works).
Submissions(S, W, K, F, G, P) ==
    \/ \E s \in S, ip \in {"ip1"} : Len(admLog[ip]) < P /\ SubmitStart(s, ip)
    \/ \E s \in S, body \in Bodies(W, K) : ParseBody(s, body)
    \/ \E s \in S, dbOk \in F : Lookup(s, dbOk)
    \/ \E s \in S, dbOk \in F : GetUserByWallet(s, dbOk)
    \/ \E s \in S, outcome \in Outcomes(F) : CompleteToken(s, outcome)
    \/ \E s \in S, outcome \in Outcomes(F) : LinkWallet(s, outcome)
    \/ \E s \in S, ok \in G : AssignRole(s, ok)
    \/ \E s \in S, ok \in G : SendDm(s, ok)
    \/ \E s \in S, dbOk \in F : LogAnalytics(s, dbOk)

\* GET /verify/{token}, for a token minted or not; F are the outcomes of the lookup.
Pages(F) == \E t \in Minted \cup {UnknownToken}, dbOk \in F : HandlePage(t, dbOk)

\* The solana-verify command and the verify button: invocations in C for accounts in A;
\* H are the outcomes of a storage call, D the clock offsets between the two clock
\* reads of an issuance.
Commands(C, A, H, D) ==
    \/ \E c \in C, a \in A, via \in {"command", "button"} : CmdStart(c, a, via)
    \/ \E c \in C, dbOk \in H : CmdGetUser(c, dbOk)
    \/ \E c \in C, dbOk \in H, d \in D : CmdGetPending(c, dbOk, d)
    \/ \E c \in C, stored \in H : CmdStore(c, stored)

\* Concurrent submissions for one wallet by two accounts, at one instant, every call
\* succeeding.
Next ==
    \/ Submissions(Slots, {"W1"}, {"genuine", "forged"}, {TRUE}, {TRUE}, MaxPosts)
    \/ Pages({TRUE})
    \/ Commands({"c1"}, Accounts, {TRUE}, {0})

Spec == Init /\ [][Next]_vars

\* The life of a token over time: one submission, page loads, the clock moving from
\* deadline to deadline and one tick past it.
NextTime ==
    \/ Submissions({"r1"}, {"W1"}, {"genuine"}, {TRUE}, {TRUE}, 1)
    \/ Pages({TRUE})
    \/ Commands({"c1"}, {"A1"}, {TRUE}, {0, 1})
    \/ \E t \in Deadlines \cup {x + 1 : x \in Deadlines} : t <= MaxSteps * HalfTTL /\ Elapse(t)

SpecTime == Init /\ [][NextTime]_vars

\* Issuance over time: invocations of one account whose storage calls may fail, one
\* submission, the clock moving from deadline to deadline.
NextIssue ==
    \/ Commands({"c1"}, {"A1"}, BOOLEAN, {0, 1})
    \/ Submissions({"r1"}, {"W1"}, {"genuine"}, {TRUE}, {TRUE}, 1)
    \/ \E t \in Deadlines : t <= MaxSteps * HalfTTL /\ Elapse(t)

SpecIssue == Init /\ [][NextIssue]_vars

\* The rate-limit gate: submissions in slots S from the addresses I, of bodies that
\* fail one of the checks before completion, while the clock ticks.
Gate(S, I) ==
    \/ \E s \in S, ip \in I :
          (ip = "ip1" \/ Len(admLog[ip]) < MaxOtherIp) /\ SubmitStart(s, ip)
    \/ \E s \in S, body \in Bodies({"W1"}, {"genuine"}) : ParseBody(s, body)
    \/ \E s \in S : Lookup(s, TRUE)
    \/ Tick(1, MaxRateNow)

\* One request at a time, from two addresses.
NextRate == Gate({"r1"}, IPs)

SpecRate == Init /\ [][NextRate]_vars

\* Two requests of one address in flight.
NextRace == Gate(Slots, {"ip1"})

SpecRace == Init /\ [][NextRace]_vars

\* One submission at a time, of every kind of body, with storage and Discord failures.
NextSubmit ==
    \/ Submissions({"r1"}, {"W1", BadWallet, NoWallet}, SigKinds, BOOLEAN, BOOLEAN, MaxPosts)
    \/ Pages({TRUE})
    \/ Commands({"c1"}, {"A1"}, {TRUE}, {0})

SpecSubmit == Init /\ [][NextSubmit]_vars

\* Completion for two accounts, one submission at a time, for one wallet; storage and
\* Discord calls may fail.
NextLink ==
    \/ Submissions({"r1"}, {"W1"}, {"genuine"}, BOOLEAN, BOOLEAN, MaxPosts)
    \/ Commands({"c1"}, Accounts, {TRUE}, {0})

SpecLink == Init /\ [][NextLink]_vars

\* Two submissions of one account in flight, each for a wallet of its own; every
\* call succeeds.
NextRelink ==
    \/ Submissions(Slots, Wallets, {"genuine"}, {TRUE}, {TRUE}, MaxPosts)
    \/ Commands({"c1"}, {"A1"}, {TRUE}, {0})

SpecRelink == Init /\ [][NextRelink]_vars

\* The life of the web server: the cog is loaded and unloaded once; while the socket
\* listens, pages, preflights, health probes and one submission are served; the
\* storage calls of the HTTP handlers may fail.
NextServer ==
    \/ \E url \in Urls : CogLoad(url)
    \/ \E ok \in BOOLEAN : RunnerSetup(ok)
    \/ \E ok \in BOOLEAN : SiteStart(ok)
    \/ CogUnload
    \/ server.listening /\ Pages(BOOLEAN)
    \/ server.listening /\ HandleOptions
    \/ server.listening /\ HandleHealth
    \/ server.listening /\ Submissions({"r1"}, {"W1"}, {"genuine"}, BOOLEAN, {TRUE}, 1)
    \/ Commands({"c1"}, {"A1"}, {TRUE}, {0})

SpecServer == Init /\ [][NextServer]_vars

\* Calls of get_db_connection by the callers K with max_retries in M, each create_pool
\* and each test query ending with an outcome in O; the pool is closed now and then.
Connections(K, M, O) ==
    \/ \E k \in K, m \in M : GetDbConnection(k, m)
    \/ \E k \in K, outcome \in O : CreatePool(k, outcome)
    \/ \E k \in K, outcome \in O : TestPool(k, outcome)
    \/ \E k \in K : Backoff(k)
    \/ CloseDbConnection

\* One caller at a time, every max_retries up to MaxRetries, each pass of the loop
\* succeeding or failing either way.
NextConnect == Connections({"k1"}, 0..MaxRetries, {"ok", "PostgresError", "OSError"})

SpecConnect == Init /\ [][NextConnect]_vars

\* Two callers in flight, with max_retries 0 or 1.
NextPool == Connections(Callers, {0, 1}, {"ok", "PostgresError"})

SpecPool == Init /\ [][NextPool]_vars

\* main.py: main() runs to its end with or without a token; while its web server
\* listens, POST /api/confirm is served; the health check script runs at any time.
NextMain ==
    \/ \E token \in BOOLEAN : Main(token)
    \/ \E ok \in BOOLEAN : StartRunner(ok)
    \/ \E ok \in BOOLEAN : StartSite(ok)
    \/ \E loaded \in BOOLEAN : SetupHook(loaded)
    \/ ClosedInside
    \/ \E cause \in {"normal", "cancelled", "exception", "KeyboardInterrupt"} : BotEnd(cause)
    \/ \E stopOk \in BOOLEAN : Finally(stopOk)
    \/ \E body \in Bodies({"W1"}, {"genuine", "short"}) : HandleConfirm(body)
    \/ \E st \in {0, 200, 404, 503}, kind \in {"response", "timeout", "refused"}, runOk \in BOOLEAN :
          HealthCheck([kind |-> kind, status |-> st], runOk)

SpecMain == Init /\ [][NextMain]_vars

\* Two start-verification invocations in flight, for either account, by command or
\* button; storage calls may fail.
NextInvoke == Commands(Cmds, Accounts, BOOLEAN, {0})

SpecInvoke == Init /\ [][NextInvoke]_vars

(* ------------------------------ properties ----------------------------- *)
Stored(t) == t \in TokenIds /\ tokens[t].status # "absent"

Prefix(n) == SubSeq(Pipeline, 1, n)

\* C1: in every reachable state no two distinct accounts hold the same non-null
\* wallet address.
C1_WalletUnique ==
    \A a, b \in Accounts :
        (a # b /\ users[a].wallet_address # NoWallet)
            => users[a].wallet_address # users[b].wallet_address

\* C2: of two completion attempts for the same wallet address under two different
\* accounts, at most one returns success (the analytics event is the last step before
\* complete_verification returns True).
C2_ExactlyOneSucceeds ==
    \A t1, t2 \in TokenIds :
        (/\ t1 # t2
         /\ tokens[t1].status = "completed" /\ tokens[t2].status = "completed"
         /\ tokens[t1].wallet_address = tokens[t2].wallet_address
         /\ tokens[t1].discord_id # tokens[t2].discord_id)
            => ~(fired[t1].analytics > 0 /\ fired[t2].analytics > 0)

\* C3: for every token the role grant, the confirmation DM and the analytics event
\* fire at most once, whatever submissions carry that token.
C3_SideEffectsOnce ==
    \A t \in TokenIds :
        fired[t].role <= 1 /\ fired[t].dm <= 1 /\ fired[t].analytics <= 1

\* C4: a submission is accepted (answered 200) only if its signature is a valid
\* signature of the submitted wallet over the message expected for the token.
C4_AcceptedOnlyIfGenuine ==
    (ev.op = "post" /\ ev.status = 200) => ev.genuine

\* C5: a token lookup made strictly before createdAt + 10 minutes returns the token,
\* and one made strictly after createdAt + 10 minutes returns not-found.
C5_LookupHonoursExpiry ==
    (ev.looked /\ Stored(ev.token)) =>
        /\ now < tokens[ev.token].created_at + TokenTTL => ev.found
        /\ now > tokens[ev.token].created_at + TokenTTL => ~ev.found

PendingFor(k, a) ==
    /\ tokens[k].discord_id = a
    /\ tokens[k].status = "pending"
    /\ now < tokens[k].expires_at

\* What C6 as amended asks of a step of invocation c.
IssueStep(c) ==
    LET a == cmd[c].account
        p == ev'.pending
        t == cmd[c].token
        usable == p # NoToken /\ PendingFor(p, a) /\ now < jwts[p].exp
    IN  /\ (cmd[c].pc = "get_user" /\ cmd'[c] # cmd[c] /\ ev'.outcome # "generic_error")
              => IF users[a].wallet_verified
                 THEN ev'.outcome = "already_verified" /\ cmd'[c] = IdleCmd
                      /\ UNCHANGED <<tokens, jwts, nextTok>>
                 ELSE cmd'[c].pc = "get_pending"
        /\ (cmd[c].pc = "get_pending" /\ cmd'[c] # cmd[c] /\ ev'.outcome # "generic_error")
              => /\ (p = NoToken) <=> (\A k \in TokenIds : ~PendingFor(k, a))
                 /\ (ev'.outcome = "reused") <=> usable
                 /\ usable => /\ ev'.token = p
                              /\ cmd'[c] = IdleCmd
                              /\ UNCHANGED <<tokens, jwts, nextTok>>
                 /\ ~usable => /\ ev'.outcome = "minted"
                               /\ ev'.token = nextTok /\ ~Stored(nextTok)
                               /\ nextTok' = nextTok + 1
                               /\ jwts'[nextTok].discord_id = a
                               /\ cmd'[c].pc = "store" /\ cmd'[c].token = nextTok
                               /\ UNCHANGED tokens
        /\ (cmd[c].pc = "store" /\ cmd'[c] # cmd[c])
              => \/ /\ ev'.outcome = "link_sent"
                    /\ tokens' = [tokens EXCEPT ![t] =
                                     [discord_id |-> a, status |-> "pending", created_at |-> now,
                                      expires_at |-> cmd[c].expires_at, wallet_address |-> NoWallet]]
                 \/ ev'.outcome = "store_failed" /\ UNCHANGED tokens

C7_AdmitsUpToTen ==
    ev.op = "submit" => (ev.admitted <=> ev.before < RateLimit)

C7_AdmittedAfterSlide ==
    /\ ev.op = "submit" /\ ev.admitted
    /\ ev.before = RateLimit - 1
    /\ Len(admLog[ev.ip]) > RateLimit

\* The requests of ip admitted in the 60 seconds up to instant t.
AdmittedIn(ip, t) == SelectSeq(admLog[ip], LAMBDA ts : ts > t - RateWindow /\ ts <= t)

\* C8: under any interleaving of requests of one IP, no rolling 60-second window holds
\* more than 10 admitted requests, and every admitted timestamp still inside the
\* window is in that IP's list.
C8_WindowNeverExceeded ==
    \A ip \in IPs :
        /\ \A t \in 0..now : Len(AdmittedIn(ip, t)) <= RateLimit
        /\ InWindow(rate_limits[ip], now) = AdmittedIn(ip, now)

C8_FullWindowInFlight ==
    /\ \A s \in Slots : req[s].pc = "json" /\ req[s].ip = "ip1"
    /\ Len(AdmittedIn("ip1", now)) = RateLimit
    /\ now > 0

\* C9: a request the rate limiter rejects is answered 429 at once: the handler has
\* returned, no token was looked up, no token row and no user row changed.
C9_RejectedTouchesNothing ==
    [][(ev'.op = "submit" /\ ~ev'.admitted) =>
          /\ ev'.status = 429 /\ ev'.error = "rate_limit"
          /\ ev'.did = Prefix(1)
          /\ ~ev'.looked
          /\ req'[ev'.slot] = IdleReq
          /\ UNCHANGED <<tokens, users, jwts, hasRole, fired>>]_vars

C9_Rejected ==
    /\ ev.op = "submit" /\ ~ev.admitted /\ ev.status = 429 /\ req[ev.slot] = IdleReq
    /\ \E ip \in IPs : ip # ev.ip /\ admLog[ip] # <<>>

\* C10: the checks run in the order rate limit, required fields, wallet-address format,
\* token lookup, signature validation, completion; the response is that of the first
\* check that fails, every earlier check having passed and no later step having run.
C10_FirstFailureDecides ==
    (ev.op \in {"post", "submit"} /\ ev.status # 0) =>
        /\ ev.status \in {200, 400, 429, 500}
        /\ ev.status = 429 <=> ev.error = "rate_limit"
        /\ ev.status = 400 <=>
              ev.error \in {"signature_invalid", "invalid_wallet", "missing_data", "invalid_token"}
        /\ ev.status = 500 <=> ev.error = "internal_server_error"
        /\ ev.status = 200 <=> ev.error = "none"
        /\ ev.error = "rate_limit" => ev.did = Prefix(1)
        /\ ev.error = "missing_data" => ev.did = Prefix(3)
        /\ ev.error = "invalid_wallet" =>
              /\ ev.did = Prefix(4)
              /\ ev.token # NoToken /\ ~is_valid_solana_address(ev.wallet)
        /\ ev.error = "invalid_token" =>
              /\ ev.did = Prefix(5)
              /\ is_valid_solana_address(ev.wallet) /\ ev.token # NoToken /\ ~Stored(ev.token)
        /\ ev.error = "signature_invalid" =>
              /\ ev.did = Prefix(6)
              /\ is_valid_solana_address(ev.wallet) /\ Stored(ev.token)
        /\ ev.status = 500 => ev.did \in {Prefix(2), Prefix(5), Pipeline}
        /\ ev.status = 200 =>
              /\ ev.did = Pipeline
              /\ is_valid_solana_address(ev.wallet) /\ Stored(ev.token)

C10_InvalidWalletBeforeLookup ==
    /\ ev.op = "post" /\ ev.error = "invalid_wallet"
    /\ ev.wallet = BadWallet /\ ev.token = UnknownToken
    /\ \A i \in 1..Len(ev.did) : ev.did[i] # "lookup"

\* C11: every response of POST /api/verify has the status of its failure class: 429 when
\* rate limited; 400 for missing fields, invalid wallet address, invalid token and
\* invalid signature; 500 only for internal failures (a storage call that fails, a body
\* that cannot be read); 200 with success:true only when completion ran to its end; and
\* every response other than 200 has success:false.
C11_StatusOfFailureClass ==
    (ev.op \in {"post", "submit"} /\ ev.status # 0) =>
        /\ ev.status = 429 <=> (ev.op = "submit" /\ ~ev.admitted)
        /\ ev.status = 400 <=>
              ev.error \in {"signature_invalid", "invalid_wallet", "missing_data", "invalid_token"}
        /\ ev.status = 500 => (ev.cause = "storage" \/ ev.cause = "body")
        /\ ev.status = 200 <=> ev.success
        /\ ev.success => ev.did = Pipeline

\* What the handler answers when a storage call fails or raises.
InternalErrorResponse == [status |-> 500, error |-> "internal_server_error", success |-> FALSE]

\* C12: a submission whose wallet is already linked to a different account is answered
\* with a conflict failure whose status and message differ from the response given
\* for an internal storage failure.
C12_ConflictDistinguishable ==
    (ev.op = "post" /\ ev.cause = "conflict") =>
        [status |-> ev.status, error |-> ev.error, success |-> ev.success] # InternalErrorResponse

\* C13: a completion attempt that fails because the wallet is already linked to a
\* different account changes no token row and no user row and triggers no role grant,
\* DM or analytics event: neither the step that answers the conflict nor the step that
\* entered complete_verification before it.
C13_ConflictMutatesNothing ==
    [][\A s \in Slots :
          (/\ ev'.op = "post" /\ ev'.slot = s
           /\ req[s].pc = "lookup" \/ (req[s].pc = "get_user_by_wallet" /\ ev'.cause = "conflict"))
              => UNCHANGED <<tokens, users, hasRole, fired>>]_vars

C13_ConflictRefused ==
    /\ ev.op = "post" /\ ev.cause = "conflict"
    /\ tokens[ev.token].status = "pending"
    /\ users[ev.discord_id] = [wallet_address |-> NoWallet, wallet_verified |-> FALSE]
    /\ \E a \in Accounts : a # ev.discord_id /\ users[a].wallet_address = ev.wallet
    /\ fired[ev.token] = [role |-> 0, dm |-> 0, analytics |-> 0]

\* Request s has passed both storage writes of completion: its token row is Completed
\* and link_wallet reported success; the side effects are running.
WritesDone(s) ==
    /\ req[s].pc = "assign_role" \/ req[s].pc = "send_dm" \/ req[s].pc = "log_analytics"
    /\ tokens[req[s].token].status = "completed"

\* C14: when the storage writes of a completion succeeded, complete_verification returns
\* success whether or not the role grant, the DM or the analytics event fails, and
\* the wallet link stays in place.
C14_SuccessDespiteSideEffects ==
    [][\A s \in Slots :
          (WritesDone(s) /\ req'[s] # req[s]) =>
              /\ req'[s].pc = "idle" => (ev'.success /\ ev'.status = 200)
              /\ users'[req[s].discord_id] =
                    [wallet_address |-> req[s].wallet, wallet_verified |-> TRUE]]_vars

\* The response ev ends a completion attempt: complete_verification was entered.
AttemptEnded == ev.op = "post" /\ ev.status # 0 /\ ev.did = Pipeline

\* The wallet of the request is linked to the token's requesting account.
Linked(a, w) == users[a] = [wallet_address |-> w, wallet_verified |-> TRUE]

\* C15: once a completion attempt has ended, the token is Completed if and only if the
\* submitted wallet is linked to the token's requesting account with walletVerified.
C15_CompletionAllOrNothing ==
    AttemptEnded =>
        (tokens[ev.token].status = "completed" <=> Linked(ev.discord_id, ev.wallet))

\* C16: whenever POST /api/verify answers success:true, at that moment the token's
\* requesting account has walletVerified = true and walletAddress equal to the submitted
\* address, and the token's status is Completed.
C16_SuccessMeansLinked ==
    (ev.op = "post" /\ ev.success) =>
        /\ Linked(ev.discord_id, ev.wallet)
        /\ tokens[ev.token].status = "completed"

\* C17: every POST /api/verify request receives exactly one response: a step of a
\* request answers exactly when the handler returns, and a step in which the body read
\* or a storage call raised answers a generic 500 internal-error response.
C17_ExactlyOneResponse ==
    [][\A s \in Slots :
          (req[s].pc # "idle" /\ req'[s] # req[s]) =>
              /\ ev'.op = "post" /\ ev'.slot = s
              /\ req'[s] = IdleReq <=> ev'.status # 0
              /\ (ev'.cause = "storage" \/ ev'.cause = "body") =>
                    /\ req'[s] = IdleReq
                    /\ [status |-> ev'.status, error |-> ev'.error, success |-> ev'.success]
                          = InternalErrorResponse]_vars

C17_StorageFailureAnswered ==
    /\ ev.op = "post" /\ ev.cause = "storage" /\ ev.did = Prefix(5)
    /\ ev.status = 500 /\ req[ev.slot] = IdleReq

\* C18: a POST /api/verify request (admitted, its body JSON) with any of token,
\* walletAddress or signature absent is answered 400 "missing data" and leaves every
\* token row and user row unchanged.
C18_MissingFieldRejected ==
    [][\A s \in Slots :
          (req[s].pc = "json" /\ req'[s] # req[s] /\ ev'.cause # "body") =>
              LET b == IF req'[s].pc = "lookup" THEN req'[s] ELSE ev'
              IN  (b.token = NoToken \/ b.wallet = NoWallet \/ b.sig = NoSig) =>
                      /\ ev'.status = 400 /\ ev'.error = "missing_data" /\ ~ev'.success
                      /\ req'[s] = IdleReq
                      /\ UNCHANGED <<tokens, users>>]_vars

C18_SignatureMissing ==
    /\ ev.op = "post" /\ ev.status = 400 /\ ev.error = "missing_data"
    /\ ev.sig = NoSig /\ ev.wallet = "W1"
    /\ Stored(ev.token) /\ tokens[ev.token].status = "pending"

\* C19: GET /verify/{token} returns the same response, status 200 and the generic error
\* page, for a token that does not exist and for a token that has expired.
C19_SamePageForMissingAndExpired ==
    (ev.op = "page" /\ (~Stored(ev.token) \/ now > tokens[ev.token].expires_at)) =>
        (ev.status = 200 /\ ev.error = ErrorPage)

\* A sequence of exactly 64 bytes.
ByteSequence64(sig) == sig.isList /\ sig.isBytes /\ sig.len = SigLen

\* C20: verify_wallet_signature returns valid if and only if the signature is a sequence
\* of exactly 64 bytes and the wallet address passes the format check; every other
\* input returns invalid.
C20_ValidIffWellFormed ==
    (ev.op = "post" /\ ev.looked /\ ev.found) =>
        /\ ev.status = 0 <=> verify_wallet_signature(ev.wallet, ev.sig, ev.token).valid
        /\ ev.status = 0 <=> (ByteSequence64(ev.sig) /\ is_valid_solana_address(ev.wallet))

\* C21: for every issued token, the expiry embedded in the token (the exp set by
\* generate_jwt_token) equals the expiresAt stored for its row by
\* store_verification_token, even when time advances between issuing and storing.
C21_ExpiriesAgree ==
    \A t \in TokenIds : Stored(t) => tokens[t].expires_at = jwts[t].exp

\* C22: a token's status only ever moves from Pending to Completed: no step of the flow
\* returns a Completed token to Pending, and a stored row never disappears.
C22_StatusMonotonic ==
    [][\A t \in TokenIds :
          /\ tokens[t].status = "completed" => tokens'[t].status = "completed"
          /\ tokens[t].status = "pending" =>
                (tokens'[t].status = "pending" \/ tokens'[t].status = "completed")]_vars

C22_CompletedAgain ==
    \E t \in TokenIds, s \in Slots :
        /\ tokens[t].status = "completed" /\ fired[t].analytics >= 1
        /\ req[s].token = t /\ req[s].pc = "link_wallet"

\* C23: the verification HTTP server started by cog_load is stopped at shutdown: after
\* cog_unload has returned, the server that start_api_server started no longer listens.
C23_StoppedAfterUnload ==
    server.pc = "unloaded" => ~server.listening

\* C25: every response of the verification HTTP service carries the CORS headers,
\* error responses and the responses to requests whose handler raises included.
C25_CorsOnEveryResponse ==
    (ev.status # 0 /\ ev.op # "cog" /\ ev.op # "cmd") => ev.cors

\* C24: get_db_connection makes at most max_retries connection attempts; when all of
\* them fail it ends by raising ConnectionError, and it makes no further attempt once
\* one has succeeded.
C24_AtMostMaxRetriesAttempts ==
    \A k \in Callers :
        LET c == conn.call[k]
        IN  /\ Len(c.tried) <= c.max_retries
            /\ c.result = "ConnectionError" => \A i \in 1..Len(c.tried) : c.tried[i] # "ok"
            /\ \A i \in 1..Len(c.tried) :
                  c.tried[i] = "ok" => (i = Len(c.tried) /\ c.pc = "idle" /\ c.result = "pool")

\* C26: after any interleaving of start-verification invocations for one account, at
\* most one token of that account is Pending and unexpired at any time.
C26_OnePendingPerAccount ==
    \A a \in Accounts : Cardinality({k \in TokenIds : PendingFor(k, a)}) <= 1

\* C27: a completion mutates only the user row of the token's requesting account: a
\* step that changes the user table is the link step of a submission, it links the
\* submitted wallet to the account the token row names, and it changes no other row.
C27_OnlyRequesterLinked ==
    [][users' # users =>
          \E s \in Slots :
              /\ req[s].pc = "link_wallet"
              /\ LET a == tokens[req[s].token].discord_id
                 IN  /\ users'[a] = [wallet_address |-> req[s].wallet, wallet_verified |-> TRUE]
                     /\ \A b \in Accounts \ {a} : users'[b] = users[b]]_vars

C27_OtherAccountUntouched ==
    \E a, b \in Accounts :
        /\ a # b /\ Linked(a, "W1")
        /\ users[b] = [wallet_address |-> NoWallet, wallet_verified |-> FALSE]
        /\ \E k \in TokenIds : PendingFor(k, b)
        /\ ev.op = "post" /\ ev.status = 200 /\ ev.discord_id = a

\* C28: a verification link is delivered only for a token that is stored: an invocation
\* that answers with a link (a fresh one or the pending one) names a stored token, and
\* an invocation whose store returned false has answered with the internal error and
\* no link.
C28_LinkOnlyForStored ==
    ev.op = "cmd" =>
        /\ (ev.outcome = "link_sent" \/ ev.outcome = "reused") => Stored(ev.token)
        /\ (ev.token # NoToken /\ ~Stored(ev.token) /\ cmd[ev.slot].pc = "idle")
               => ev.outcome = "store_failed"

C28_StoreRefused ==
    /\ ev.op = "cmd" /\ ev.outcome = "store_failed"
    /\ ev.token # NoToken /\ ~Stored(ev.token) /\ jwts[ev.token].discord_id = ev.account

\* C29: a start-verification invocation for an account whose walletVerified is already
\* true issues no token, stores nothing and sends no verification link: a verified
\* account stays verified, and the user check of its invocation ends the invocation
\* with no token minted, no row written and an answer that carries no token.
C29_VerifiedIssuesNothing ==
    [][/\ \A a \in Accounts : users[a].wallet_verified => users'[a].wallet_verified
       /\ \A c \in Cmds :
            (/\ cmd[c].pc = "get_user"
             /\ users[cmd[c].account].wallet_verified
             /\ cmd'[c] # cmd[c])
            => /\ cmd'[c] = IdleCmd
               /\ tokens' = tokens /\ jwts' = jwts /\ nextTok' = nextTok
               /\ ev'.token = NoToken
               /\ ev'.outcome # "link_sent" /\ ev'.outcome # "reused"
               /\ ev'.outcome # "minted"]_vars

C29_VerifiedTurnedAway ==
    /\ ev.op = "cmd" /\ ev.outcome = "already_verified"
    /\ users[ev.account].wallet_verified
    /\ cmd[ev.slot] = IdleCmd
    /\ nextTok <= MaxTokens
    /\ \A k \in TokenIds : ~PendingFor(k, ev.account)

\* C30: a request rejected by check_rate_limit is not recorded in the IP's timestamp
\* list: after a rejection the list is the trimmed list of before, it holds the admitted
\* requests of the window and nothing else, so that over-limit requests do not put off
\* the instant at which the client is admitted again.
C30_RejectedNotRecorded ==
    [][(ev'.op = "submit" /\ ~ev'.admitted) =>
          LET ip == ev'.ip
          IN  /\ rate_limits'[ip] = InWindow(rate_limits[ip], now)
              /\ rate_limits'[ip] = AdmittedIn(ip, now)
              /\ Len(rate_limits'[ip]) = RateLimit
              /\ admLog'[ip] = admLog[ip]]_vars

C30_RejectedLeftOut ==
    /\ ev.op = "submit" /\ ~ev.admitted /\ now > 0
    /\ Len(rate_limits[ev.ip]) = RateLimit
    /\ \A i \in 1..Len(rate_limits[ev.ip]) : rate_limits[ev.ip][i] < now

\* C31: check_rate_limit for one IP never changes the timestamp list of, or the
\* admit/reject decision for, any other IP: a rate-limit step of one address leaves
\* every other address's list as it was, and with it the answer that address would get.
C31_OtherIpUntouched ==
    [][ev'.op = "submit" =>
          \A ip \in IPs \ {ev'.ip} :
              /\ rate_limits'[ip] = rate_limits[ip]
              /\ admLog'[ip] = admLog[ip]
              /\ check_rate_limit(rate_limits'[ip], now').ok
                     = check_rate_limit(rate_limits[ip], now).ok]_vars

C31_AdmittedBesideFullIp ==
    /\ ev.op = "submit" /\ ev.ip = "ip2" /\ ev.admitted
    /\ Len(InWindow(rate_limits["ip1"], now)) = RateLimit
    /\ rate_limits["ip2"] = <<now>>

\* C32: under any interleaving of concurrent get_db_connection calls made while no pool
\* exists, exactly one connection pool is created and every caller receives that same
\* pool: as long as no test query has failed and no pool was closed, at most one pool
\* was created and the callers that were handed a pool were handed the same one.
C32_OnePoolForAll ==
    (conn.failed = {} /\ conn.closed = {}) =>
        /\ conn.made <= 1
        /\ \A k, l \in Callers :
              (conn.call[k].result = "pool" /\ conn.call[l].result = "pool")
                  => conn.call[k].got = conn.call[l].got

\* C33: get_db_connection only ever returns a pool whose test query succeeded: a pool
\* whose creation succeeded but whose test failed is never returned by this or any
\* later call.
C33_OnlyTestedPoolReturned ==
    \A k \in Callers :
        conn.call[k].result = "pool" =>
            /\ conn.call[k].got \in conn.tested
            /\ conn.call[k].got \notin conn.failed

\* C34: whenever main() has started the web server, it stops it before returning:
\* bot.close() runs on every exit path (normal end, KeyboardInterrupt, any exception),
\* and when DISCORD_TOKEN is unset no server is started at all. Once main() has ended
\* nothing listens; unless it ended for want of a token, close was called; and when it
\* ended for want of a token nothing was set up and nothing ever listened.
C34_ServerStoppedOnExit ==
    /\ bot.pc = "returned" => ~bot.listening
    /\ (bot.pc = "returned" /\ bot.exit # "no_token") => bot.closes >= 1
    /\ bot.exit = "no_token" =>
          (~bot.started /\ ~bot.web_app /\ ~bot.runner /\ ~bot.site /\ bot.closes = 0)

C34_StoppedAfterInterrupt ==
    /\ bot.pc = "returned" /\ bot.end = "KeyboardInterrupt" /\ bot.exit = "return"
    /\ bot.started /\ ~bot.listening /\ bot.closes = 1

\* C36: POST /api/confirm on the bot's web server returns the signature validator's
\* result when the WalletVerification cog is loaded, returns 500 'Verification service
\* unavailable' when it is not, and returns 400 'Invalid request' only when the request
\* itself is malformed.
C36_ConfirmAnswers ==
    ev.op = "confirm" =>
        /\ (ev.wellFormed /\ ev.cogLoaded) =>
              /\ ev.status = 200
              /\ ev.error = verify_wallet_signature(ev.wallet, ev.sig, ev.token).error
        /\ (ev.wellFormed /\ ~ev.cogLoaded) =>
              (ev.status = 500 /\ ev.error = "Verification service unavailable")
        /\ ev.status = 400 => ~ev.wellFormed

\* C37: the health check script exits with status 0 if and only if GET /api/health
\* answered with status 200; any other status, a timeout or any exception gives exit
\* status 1.
C37_ExitZeroIffOk ==
    health.pc = "exited" =>
        /\ health.exit = 0 <=> (health.answer.kind = "response" /\ health.answer.status = 200)
        /\ health.exit # 0 => health.exit = 1

C37_UnhealthyAnswer ==
    /\ health.pc = "exited" /\ health.exit = 1
    /\ health.answer.kind = "response" /\ health.answer.status = 404

\* C35: start_api_server starts the local verification server only when the
\* verification base URL begins with http://localhost or http://127.0.0.1, and a failure
\* to start it (e.g. port already bound) is logged and never propagates out of cog_load.
C35_LocalOnlyAndContained ==
    /\ (server.app \/ server.listening) =>
          (server.url[1] = "http://" /\ (server.url[2] = "localhost" \/ server.url[2] = "127.0.0.1"))
    /\ server.failure # "raised"
    /\ (server.pc = "loaded" /\ server.app /\ ~server.listening) => server.failure = "logged"

C35_StartFailureLogged ==
    /\ server.pc = "loaded" /\ server.app /\ ~server.listening
    /\ server.failure = "logged" /\ server.url = <<"http://", "127.0.0.1", ":8080">>

====
